---- MODULE Spec2Model ----
(***************************************************************************)
(* Model of patch.py (Rust Firmware Patcher): _patch_ref_binary and the    *)
(* GUID conversion it uses.  Files are byte sequences (bytes are 0..255);  *)
(* byte positions are 0-based as in Python, sequences are 1-based.         *)
(***************************************************************************)
EXTENDS Integers, Sequences, FiniteSets, TLC

VARIABLES
    FfsGuid,        \* config["DxeCore"]["FfsGuid"]: the 32 hex digits of the GUID text
    ReferenceFw,    \* bytes of the file config["Paths"]["ReferenceFw"]
    GeneratedFfs,   \* bytes of the file config["Paths"]["GeneratedFfs"]
    output_exists,  \* whether a file exists at config["Paths"]["Output"]
    Output,         \* bytes of the file at config["Paths"]["Output"] (<<>> while absent)
    out_bin_data,   \* the bytes read from the output file before the loop
    gen_ffs_data,   \* the bytes read from the generated FFS file
    offset,         \* loop variable offset
    patch_cnt,      \* loop variable patch_cnt
    visited,        \* offsets logged by "Patching in new Rust DXE Core at 0x..."
    pc,             \* position in _patch_ref_binary
    outcome         \* how the run ended

vars == <<FfsGuid, ReferenceFw, GeneratedFfs, output_exists, Output,
          out_bin_data, gen_ffs_data, offset, patch_cnt, visited, pc, outcome>>

---------------------------------------------------------------------------
(* Bounds of the explored inputs *)

MaxImageLen == 80
MaxOccurrences == 2
MaxRepLen == 48
MaxOldSize == 30

---------------------------------------------------------------------------
(* Program constants *)

_OFFSET_TO_SIZE_FROM_GUID == 20
_LENGTH_OF_SIZE == 3
_OFFSET_TO_STATE_FROM_GUID == 23

\* "71dad237-900f-4ea8-8dfd-93f8f8c704df" as hex digits, hyphens dropped
_RUST_DXE_CORE_DEFAULT_FFS_FV_GUID ==
    << 7,1,13,10,13,2,3,7,  9,0,0,15,  4,14,10,8,  8,13,15,13,
       9,3,15,8,15,8,12,7,0,4,13,15 >>

---------------------------------------------------------------------------
(* Helpers on integers and byte sequences *)

Min(a, b) == IF a < b THEN a ELSE b

Max(a, b) == IF a > b THEN a ELSE b

SetMax(S) == CHOOSE x \in S : \A y \in S : y <= x

\* Python slice s[lo:hi] for 0 <= lo, 0 <= hi (clipped to the sequence)
Slice(s, lo, hi) ==
    LET h == Min(hi, Len(s))
    IN  IF lo >= h THEN <<>> ELSE [i \in 1..(h - lo) |-> s[lo + i]]

\* uuid.UUID(guid_str).bytes : the 16 bytes in the order of the text
UuidBytes(digits) == [i \in 1..16 |-> 16 * digits[2 * i - 1] + digits[2 * i]]

\* uuid.UUID.bytes_le : the first three fields byte-swapped
BytesLe(b) ==
    << b[4], b[3], b[2], b[1], b[6], b[5], b[8], b[7] >> \o [i \in 1..8 |-> b[8 + i]]

\* " ".join(f"{byte:02X}" ...): each byte as its two hex digits
_guid_str_to_hex_val_str(guid_str) ==
    LET b == BytesLe(UuidBytes(guid_str))
    IN  [i \in 1..16 |-> << b[i] \div 16, b[i] % 16 >>]

\* bytes.fromhex on the space-separated digit pairs
FromHex(hex) == [i \in 1..Len(hex) |-> 16 * hex[i][1] + hex[i][2]]

\* the search pattern of the loop
Pattern(guid_str) == FromHex(_guid_str_to_hex_val_str(guid_str))

\* whether sub occurs in s at 0-based position i
MatchAt(s, sub, i) ==
    /\ i >= 0
    /\ i + Len(sub) <= Len(s)
    /\ \A k \in 1..Len(sub) : s[i + k] = sub[k]

\* a forward search where the code searches backward
rfind_forward(s, sub, start, end) ==
    LET e == IF end < 0 THEN Max(end + Len(s), 0) ELSE Min(end, Len(s))
        cands == {i \in start..(e - Len(sub)) : MatchAt(s, sub, i)}
    IN  IF cands = {} THEN -1 ELSE CHOOSE x \in cands : \A y \in cands : x <= y

\* bytes.rfind(sub, start, end): the highest match inside [start, end)
rfind(s, sub, start, end) ==
    LET e == IF end < 0 THEN Max(end + Len(s), 0) ELSE Min(end, Len(s))
        cands == {i \in start..(e - Len(sub)) : MatchAt(s, sub, i)}
    IN  IF cands = {} THEN -1 ELSE SetMax(cands)

\* int.from_bytes(b, byteorder="little")
FromBytesLittle(b) ==
    LET RECURSIVE Val(_)
        Val(k) == IF k > Len(b) THEN 0 ELSE b[k] + 256 * Val(k + 1)
    IN  Val(1)

\* old_ffs_size as read from the bytes at an offset
OldFfsSize(data, off) ==
    FromBytesLittle(Slice(data, off + _OFFSET_TO_SIZE_FROM_GUID,
                          off + _OFFSET_TO_SIZE_FROM_GUID + _LENGTH_OF_SIZE))

\* the next offset of the loop
NextOffset(data, guid_str, off) == rfind(data, Pattern(guid_str), 0, off)

\* out_bin_data[i] raises IndexError (i is never negative here)
IndexOutOfRange(data, i) == i >= Len(data)

\* a test for a missing value that lets empty data through
IsEmptyFfs_none_only(data) == Len(data) < 0

\* "if not gen_ffs_data"
IsEmptyFfs(data) == Len(data) = 0

\* an off-by-one in the count test
NothingPatched_off_by_one(cnt) == cnt <= 1

\* "if patch_cnt == 0" after the loop
NothingPatched(cnt) == cnt = 0

\* zero fill, as the log message "Zeroing out remainder" would suggest
PadBytes_zero(n) == [i \in 1..Max(n, 0) |-> 0]

\* b"\xff" * n  (the empty bytes when n <= 0)
PadBytes(n) == [i \in 1..Max(n, 0) |-> 255]

\* f.seek(pos); f.write(data) on a file opened "r+b": overwrites in place and
\* extends the file when the write runs past its end
SeekWrite(f, pos, data) ==
    IF Len(data) = 0 THEN f
    ELSE [i \in 1..Max(Len(f), pos + Len(data)) |->
             IF i > pos /\ i <= pos + Len(data) THEN data[i - pos]
             ELSE IF i <= Len(f) THEN f[i]
             ELSE 0]

\* the three writes of one loop iteration
PatchAt(f, data, off, gen) ==
    LET new_ffs_size == Len(gen)
        old_ffs_size == OldFfsSize(data, off)
        original_state == data[off + _OFFSET_TO_STATE_FROM_GUID + 1]
        w1 == SeekWrite(f, off, gen)
        w2 == IF new_ffs_size < old_ffs_size
              THEN SeekWrite(w1, off + new_ffs_size, PadBytes(old_ffs_size - new_ffs_size))
              ELSE w1
    IN  SeekWrite(w2, off + _OFFSET_TO_STATE_FROM_GUID, << original_state >>)

---------------------------------------------------------------------------
(* Inputs: reference images and generated FFS files *)

\* a second configured GUID, "00000001-0000-0000-0000-000000000000"
AltGuid == [i \in 1..32 |-> IF i = 8 THEN 1 ELSE 0]

Guids == {_RUST_DXE_CORE_DEFAULT_FFS_FV_GUID, AltGuid}

\* lengths of the images that hold no header
BlankLens == {0, 22, 23, 30}

\* offset of the lowest header
LeadChoices == {0, 10}

\* distance between the starts of successive headers
SpacingChoices == {16, 23, 30}

\* number of image bytes from the start of the highest header on
TailChoices == {16, 23, 24, 40}

SizeChoices == {12, 20, MaxOldSize}

StateChoices == {7, 248}

RepLens == {0, 1, 12, 24, MaxRepLen}

\* an FFS file header: Name[16], IntegrityCheck[2], Type, Attributes, Size[3], State
FfsHeader(pat, size, state) ==
    pat \o << 0, 0, 0, 0 >> \o << size % 256, (size \div 256) % 256, (size \div 65536) % 256 >>
        \o << state >>

\* img with data stored at pos, cut at the end of img
Put(img, pos, data) ==
    [i \in 1..Len(img) |-> IF i > pos /\ i <= pos + Len(data) THEN data[i - pos] ELSE img[i]]

\* headers stored at the offsets of occs in ascending order
RECURSIVE Build(_, _, _, _, _)
Build(img, pat, occs, size, state) ==
    IF occs = {} THEN img
    ELSE LET o == CHOOSE x \in occs : \A y \in occs : x <= y
         IN  Build(Put(img, o, FfsHeader(pat, size[o], state + Cardinality(occs))),
                   pat, occs \ {o}, size, state)

\* ascending offsets of n headers
RECURSIVE Layouts(_)
Layouts(n) ==
    IF n = 0 THEN {<<>>}
    ELSE IF n = 1 THEN {<< l >> : l \in LeadChoices}
    ELSE {Append(s, s[n - 1] + sp) : s \in Layouts(n - 1), sp \in SpacingChoices}

\* image lengths tried for a layout
LayoutLens(s) ==
    {len \in (IF s = <<>> THEN BlankLens ELSE {s[Len(s)] + t : t \in TailChoices}) :
        len <= MaxImageLen}

\* all 0-based positions where pat occurs in img
Occurrences(img, pat) == {o \in 0..(Len(img) - Len(pat)) : MatchAt(img, pat, o)}

Images(guid_str) ==
    LET pat == Pattern(guid_str)
        Occs(s) == {s[i] : i \in 1..Len(s)}
        all == UNION {UNION {{Build([i \in 1..len |-> 0], pat, Occs(s), size, st) :
                                 size \in [Occs(s) -> SizeChoices], st \in StateChoices} :
                             len \in LayoutLens(s)} :
                      s \in UNION {Layouts(n) : n \in 0..MaxOccurrences}}
    IN  {img \in all : \A o \in Occurrences(img, pat) : OldFfsSize(img, o) <= MaxOldSize}

Replacements(guid_str) ==
    {[i \in 1..n |-> 171] : n \in RepLens}
      \cup {Slice(FfsHeader(Pattern(guid_str), n, 248) \o [i \in 1..n |-> 171], 0, n) :
               n \in RepLens}

---------------------------------------------------------------------------
(* The run *)

Init ==
    /\ FfsGuid \in Guids
    /\ ReferenceFw \in Images(FfsGuid)
    /\ GeneratedFfs \in Replacements(FfsGuid)
    /\ output_exists = FALSE
    /\ Output = <<>>
    /\ out_bin_data = <<>>
    /\ gen_ffs_data = <<>>
    /\ offset = 0
    /\ patch_cnt = 0
    /\ visited = <<>>
    /\ pc = "start"
    /\ outcome = "running"

\* shutil.copyfile, open "r+b", read, and the loop's initial values
Stage ==
    /\ pc = "start"
    /\ output_exists' = TRUE
    /\ Output' = ReferenceFw
    /\ out_bin_data' = ReferenceFw
    /\ patch_cnt' = 0
    /\ offset' = Len(ReferenceFw)
    /\ pc' = "loop"
    /\ UNCHANGED <<FfsGuid, ReferenceFw, GeneratedFfs, gen_ffs_data, visited, outcome>>

\* an iteration whose read of original_state raises IndexError
IterIndexError ==
    /\ pc = "loop"
    /\ LET o == NextOffset(out_bin_data, FfsGuid, offset)
       IN  /\ IndexOutOfRange(out_bin_data, o + _OFFSET_TO_STATE_FROM_GUID)
           /\ offset' = o
    /\ pc' = "done"
    /\ outcome' = "IndexError"
    /\ UNCHANGED <<FfsGuid, ReferenceFw, GeneratedFfs, output_exists, Output,
                   out_bin_data, gen_ffs_data, patch_cnt, visited>>

\* the iteration that finds no further occurrence and leaves the loop
IterBreak ==
    /\ pc = "loop"
    /\ LET o == NextOffset(out_bin_data, FfsGuid, offset)
       IN  /\ ~IndexOutOfRange(out_bin_data, o + _OFFSET_TO_STATE_FROM_GUID)
           /\ o = -1
           /\ offset' = o
    /\ pc' = "after_loop"
    /\ UNCHANGED <<FfsGuid, ReferenceFw, GeneratedFfs, output_exists, Output,
                   out_bin_data, gen_ffs_data, patch_cnt, visited, outcome>>

\* the generated FFS data as seen by iteration number cnt
LoadedFfs(cnt, file, loaded) == IF cnt = 1 THEN file ELSE loaded

\* an iteration that finds an occurrence and raises on empty generated data
IterEmptyFfs ==
    /\ pc = "loop"
    /\ LET o == NextOffset(out_bin_data, FfsGuid, offset)
           gen == LoadedFfs(patch_cnt + 1, GeneratedFfs, gen_ffs_data)
       IN  /\ ~IndexOutOfRange(out_bin_data, o + _OFFSET_TO_STATE_FROM_GUID)
           /\ o # -1
           /\ IsEmptyFfs(gen)
           /\ offset' = o
           /\ gen_ffs_data' = gen
    /\ patch_cnt' = patch_cnt + 1
    /\ pc' = "done"
    /\ outcome' = "EmptyFfs"
    /\ UNCHANGED <<FfsGuid, ReferenceFw, GeneratedFfs, output_exists, Output,
                   out_bin_data, visited>>

\* an iteration that finds an occurrence and patches it
IterPatch ==
    /\ pc = "loop"
    /\ LET o == NextOffset(out_bin_data, FfsGuid, offset)
           gen == LoadedFfs(patch_cnt + 1, GeneratedFfs, gen_ffs_data)
       IN  /\ ~IndexOutOfRange(out_bin_data, o + _OFFSET_TO_STATE_FROM_GUID)
           /\ o # -1
           /\ ~IsEmptyFfs(gen)
           /\ offset' = o
           /\ gen_ffs_data' = gen
           /\ visited' = Append(visited, o)
           /\ Output' = PatchAt(Output, out_bin_data, o, gen)
    /\ patch_cnt' = patch_cnt + 1
    /\ UNCHANGED <<FfsGuid, ReferenceFw, GeneratedFfs, output_exists,
                   out_bin_data, pc, outcome>>

\* the check after the loop
Finish ==
    /\ pc = "after_loop"
    /\ pc' = "done"
    /\ outcome' = IF NothingPatched(patch_cnt) THEN "NotFound" ELSE "ok"
    /\ UNCHANGED <<FfsGuid, ReferenceFw, GeneratedFfs, output_exists, Output,
                   out_bin_data, gen_ffs_data, offset, patch_cnt, visited>>

Next ==
    \/ Stage
    \/ IterIndexError
    \/ IterBreak
    \/ IterEmptyFfs
    \/ IterPatch
    \/ Finish

Spec == Init /\ [][Next]_vars

---------------------------------------------------------------------------
(* Properties *)

\* the search pattern of the run
P == Pattern(FfsGuid)

\* where the pattern occurs in the reference image
InputOccurrences == Occurrences(ReferenceFw, P)

\* the offsets patched so far
Patched == {visited[i] : i \in 1..Len(visited)}

\* old_size of an occurrence: the 3-byte value at o + 20 of the input
DeclaredSize(o) == OldFfsSize(ReferenceFw, o)

\* the byte of f at 0-based position p
ByteAt(f, p) == f[p + 1]

Completed == pc = "done" /\ outcome = "ok"

Failed == outcome \in {"IndexError", "EmptyFfs", "NotFound"}

\* the elements of a set of integers, highest first
RECURSIVE Descending(_)
Descending(S) ==
    IF S = {} THEN <<>> ELSE << SetMax(S) >> \o Descending(S \ {SetMax(S)})

IsPrefix(s, t) == Len(s) <= Len(t) /\ \A i \in 1..Len(s) : s[i] = t[i]

NonOverlapping(S) == \A a \in S : \A b \in S : a < b => b - a >= Len(P)

\* C1: after a completed run every output byte outside [o, o + old_size) of
\* all patched occurrences o equals the input byte at the same position.
C1_Frame ==
    Completed =>
        \A p \in 0..(Min(Len(Output), Len(ReferenceFw)) - 1) :
            (\A o \in Patched : p < o \/ p >= o + DeclaredSize(o))
                => ByteAt(Output, p) = ByteAt(ReferenceFw, p)

\* C2: the output image always has the length of the input image.
C2_SizeInvariant == output_exists => Len(Output) = Len(ReferenceFw)

\* C3: an occurrence whose declared old_size is smaller than the replacement
\* is never patched (the run fails validation instead).
C3_OversizedRejected == \A o \in Patched : Len(gen_ffs_data) <= DeclaredSize(o)

\* C4: after a completed run the output byte at o + 23 of every patched
\* occurrence o equals the input byte at o + 23.
C4_StatePreserved ==
    Completed =>
        \A o \in Patched :
            ByteAt(Output, o + _OFFSET_TO_STATE_FROM_GUID)
                = ByteAt(ReferenceFw, o + _OFFSET_TO_STATE_FROM_GUID)

\* C5 as stated: after a completed run, for every patched occurrence o with
\* len(replacement) < old_size, every output byte in
\* [o + len(replacement), o + old_size) is 0xFF.
C5_Padding ==
    Completed =>
        \A o \in Patched :
            \A p \in (o + Len(gen_ffs_data))..(o + DeclaredSize(o) - 1) :
                ByteAt(Output, p) = 255

\* C5 amended: for every patched occurrence o with len(replacement) < old_size,
\* every output byte in [o + len(replacement), o + old_size) that is not the
\* restored status byte (position o' + 23) of a patched occurrence o' is 0xFF.
C5_PaddingExceptState ==
    \A o \in Patched :
        \A p \in (o + Len(gen_ffs_data))..(o + DeclaredSize(o) - 1) :
            (\A o2 \in Patched : p # o2 + _OFFSET_TO_STATE_FROM_GUID)
                => ByteAt(Output, p) = 255

\* a short replacement was padded around a status byte that kept its value
C5_Witness ==
    /\ Completed
    /\ \E o \in Patched :
          /\ Len(gen_ffs_data) <= _OFFSET_TO_STATE_FROM_GUID
          /\ DeclaredSize(o) > _OFFSET_TO_STATE_FROM_GUID + 1
          /\ ByteAt(Output, o + _OFFSET_TO_STATE_FROM_GUID) # 255
          /\ ByteAt(Output, o + _OFFSET_TO_STATE_FROM_GUID + 1) = 255

\* C6: when the pattern occurs in the input image at non-overlapping offsets,
\* the offsets patched are, at every moment, the highest occurrences of the
\* input image in descending order, and all of them once the loop has ended.
C6_LocatorOrder ==
    NonOverlapping(InputOccurrences) =>
        /\ IsPrefix(visited, Descending(InputOccurrences))
        /\ (pc = "after_loop" \/ outcome \in {"ok", "NotFound"})
              => visited = Descending(InputOccurrences)

\* two occurrences were patched and the writes changed where the pattern
\* occurs in the output file
C6_Witness ==
    /\ Completed
    /\ Len(visited) = 2
    /\ visited[1] > visited[2]
    /\ Occurrences(Output, P) # InputOccurrences

\* C7: a run on an image without the pattern ends with the not-found error.
C7_NotFound == (pc = "done" /\ InputOccurrences = {}) => outcome = "NotFound"

\* C8: a run that ends with the not-found error has not created the output file.
C8_NothingWritten == (pc = "done" /\ outcome = "NotFound") => ~output_exists

\* C9 as stated: with one or more occurrences and an empty replacement the
\* run ends with the empty-replacement error at the first occurrence, with
\* the image bytes equal to the input.
C9_EmptyFatal ==
    (pc = "done" /\ InputOccurrences # {} /\ Len(GeneratedFfs) = 0) =>
        /\ outcome = "EmptyFfs"
        /\ patch_cnt = 1
        /\ visited = <<>>
        /\ Output = ReferenceFw

\* C9 amended: the same, when the status byte of the highest occurrence
\* (position o + 23) lies inside the image.
C9_EmptyFatalInBounds ==
    (/\ pc = "done"
     /\ InputOccurrences # {}
     /\ SetMax(InputOccurrences) + _OFFSET_TO_STATE_FROM_GUID < Len(ReferenceFw)
     /\ Len(GeneratedFfs) = 0) =>
        /\ outcome = "EmptyFfs"
        /\ patch_cnt = 1
        /\ visited = <<>>
        /\ Output = ReferenceFw

\* an empty replacement met an image with two occurrences
C9_Witness ==
    /\ outcome = "EmptyFfs"
    /\ Len(GeneratedFfs) = 0
    /\ Cardinality(InputOccurrences) = 2

\* C10: a run that ends in an error has patched nothing: the output file
\* still holds the bytes of the reference image.
C10_NoPartialPatch ==
    Failed => (visited = <<>> /\ output_exists /\ Output = ReferenceFw)

\* a run failed on an image that holds a second, patchable occurrence while
\* the replacement was not empty
C10_Witness ==
    /\ outcome = "IndexError"
    /\ Cardinality(InputOccurrences) = 2
    /\ Len(GeneratedFfs) > 0

====
